---- MODULE Spec2Model ----
(***************************************************************************)
(* A model of the mlops-project training pipeline: the data-cleaning       *)
(* strategies (src/src/data_cleaning.py), the score evaluators             *)
(* (src/src/evaluate.py), the model trainer (src/src/train_model.py), the  *)
(* zenml steps (src/steps, src/mlops_maker/steps) and the pipeline that    *)
(* chains them (src/pipelines/training_pipeline.py).                       *)
(*                                                                         *)
(* The pandas / scikit-learn / mlflow calls the code makes are modelled by *)
(* what the libraries do on the inputs drawn here (pandas < 3, where a     *)
(* chained `df[col].fillna(..., inplace=True)` writes through to df).      *)
(***************************************************************************)
EXTENDS Integers, Sequences, FiniteSets, TLC

(* ------------------------------ bounds --------------------------------- *)
\* rows of a raw table handed to Preprocess / ingested by the pipeline
MaxRows == 4
\* how many of the expected columns a raw table may lack
MaxMissingCols == 2
\* rows of a table handed directly to Divide
MaxDivideRows == 6
\* length of the sequences handed directly to an evaluator
MaxLen == 3
\* the numeric values of those sequences are 1..MaxVal
MaxVal == 2

(* ------------------------------ columns -------------------------------- *)
TimestampCols ==
    { "order_approved_at", "order_delivered_carrier_date",
      "order_delivered_customer_date", "order_estimated_delivery_date",
      "order_purchase_timestamp" }

DimCols ==
    { "product_weight_g", "product_length_cm",
      "product_height_cm", "product_width_cm" }

TextCol == "review_comment_message"

IdCols == { "customer_zip_code_prefix", "order_item_id" }

TargetCol == "review_score"

\* a numeric feature column of the data set that the code never names
OtherCols == { "price" }

AllCols ==
    TimestampCols \cup DimCols \cup {TextCol} \cup IdCols \cup {TargetCol}
        \cup OtherCols

(* ------------------------------- cells --------------------------------- *)
NaN == [k |-> "nan", n |-> 0, s |-> ""]
Num(x) == [k |-> "num", n |-> x, s |-> ""]
Str(t) == [k |-> "str", n |-> 0, s |-> t]

IsNa(c) == c.k = "nan"

(* ------------------------------ outcomes ------------------------------- *)
\* What a call produces: a returned value or a raised exception object.
None == [kind |-> "None"]
NoExc == [type |-> "", origin |-> ""]
Exc(t, o) == [type |-> t, origin |-> o]
Ok(v) == [raised |-> FALSE, exc |-> NoExc, value |-> v]
Raise(e) == [raised |-> TRUE, exc |-> e, value |-> None]

(* ------------------------------ frames --------------------------------- *)
\* A DataFrame: column labels, their dtypes, the row index labels and the
\* cells, column by column.
Frame(cols, dtype, index, data) ==
    [cols |-> cols, dtype |-> dtype, index |-> index, data |-> data]

NRows(f) == Len(f.index)

IsNumericDtype(d) == d \in {"int64", "float64"}

RawDtype(c) ==
    IF c \in TimestampCols \cup {TextCol} THEN "object"
    ELSE IF c \in IdCols \cup {TargetCol} THEN "int64"
    ELSE "float64"

\* The cell of column c in row i of a raw table with nothing missing.
\* Numbers are even, so that the median of two of them is a whole number.
RawCell(c, i) ==
    IF c \in TimestampCols THEN Str("2018-01-01 00:00:00")
    ELSE IF c = TextCol THEN Str("great")
    ELSE IF c = TargetCol THEN Num(2 * (((i - 1) % 5) + 1))
    ELSE IF c \in IdCols THEN Num(2 * i)
    ELSE Num(2 * i * i)

\* Columns whose cells may be missing in a raw table.
NaCols == DimCols \cup OtherCols \cup {TextCol}

\* A raw table of n rows lacking the columns `missing`, with the cells of
\* column naCol missing in the rows naRows.
MkTable(n, missing, naCol, naRows) ==
    LET cols == AllCols \ missing
    IN  Frame(cols,
              [c \in cols |-> RawDtype(c)],
              [i \in 1..n |-> i],
              [c \in cols |->
                  [i \in 1..n |->
                      IF c = naCol /\ i \in naRows THEN NaN
                      ELSE RawCell(c, i)]])

\* The row sets in which a column of an n-row table may be missing.
NaRowSets(n) == IF n = 0 THEN {{}} ELSE (SUBSET (1..n)) \ {{}}

\* The ways a column of an n-row table may have missing cells: none, or a
\* column of naCols missing in a non-empty set of rows.
NaChoices(naCols, n) ==
    {<<"none", {}>>} \cup
    { <<c, rs>> : c \in naCols, rs \in NaRowSets(n) \ {{}} }

\* The column sets a raw table handed to Preprocess may lack.
MissingColSets == { m \in SUBSET AllCols : Cardinality(m) <= MaxMissingCols }

(* ------------------------- pandas operations --------------------------- *)
\* (mutant) drop(..., errors="ignore"): absent labels are skipped.
DataFrame_drop_ignore(f, labels) ==
    LET cols == f.cols \ labels
    IN  Ok(Frame(cols, [c \in cols |-> f.dtype[c]], f.index,
                 [c \in cols |-> f.data[c]]))

\* DataFrame.drop(labels, axis=1): a new frame without the labels;
\* KeyError when a label is not a column.
DataFrame_drop(f, labels) ==
    IF ~(labels \subseteq f.cols)
    THEN Raise(Exc("KeyError", "DataFrame.drop"))
    ELSE LET cols == f.cols \ labels
         IN  Ok(Frame(cols, [c \in cols |-> f.dtype[c]], f.index,
                      [c \in cols |-> f.data[c]]))

\* DataFrame.select_dtypes(include=[np.number]): a new frame of the
\* numeric columns.
DataFrame_select_dtypes_number(f) ==
    LET cols == { c \in f.cols : IsNumericDtype(f.dtype[c]) }
    IN  Ok(Frame(cols, [c \in cols |-> f.dtype[c]], f.index,
                 [c \in cols |-> f.data[c]]))

\* The numbers of a column that are not missing, in row order.
RECURSIVE NonMissing(_)
NonMissing(col) ==
    IF col = <<>> THEN <<>>
    ELSE IF IsNa(Head(col)) THEN NonMissing(Tail(col))
    ELSE <<Head(col).n>> \o NonMissing(Tail(col))

\* The k-th smallest of a non-empty sequence of numbers (k from 1).
RECURSIVE KthSmallest(_, _)
KthSmallest(xs, k) ==
    LET m == CHOOSE i \in 1..Len(xs) : \A j \in 1..Len(xs) : xs[i] <= xs[j]
        rest == [j \in 1..(Len(xs) - 1) |-> IF j < m THEN xs[j] ELSE xs[j + 1]]
    IN  IF k = 1 THEN xs[m] ELSE KthSmallest(rest, k - 1)

\* Series.median(): the median of the non-missing values, NaN when there
\* are none.
Series_median(col) ==
    LET xs == NonMissing(col)
        l  == Len(xs)
    IN  IF l = 0 THEN NaN
        ELSE IF l % 2 = 1 THEN Num(KthSmallest(xs, (l + 1) \div 2))
        ELSE Num((KthSmallest(xs, l \div 2) + KthSmallest(xs, l \div 2 + 1)) \div 2)

\* (mutant) every cell of the column is overwritten with the value.
Series_fillna_overwrite(col, value) ==
    [i \in 1..Len(col) |-> value]

\* Series.fillna(value): the missing cells replaced by value (none is
\* replaced when value itself is NaN).
Series_fillna(col, value) ==
    [i \in 1..Len(col) |-> IF IsNa(col[i]) THEN value ELSE col[i]]

(* ---------------------- DataPreprocessStrategy ------------------------- *)
\* The state of one handle_data call: the object heap (frames by
\* reference), the frame the local name `data` is bound to, and the
\* exception raised so far, if any.
PState(heap, data, out) == [heap |-> heap, data |-> data, out |-> out]

\* (mutant) the operation is done in place (inplace=True): the frame the
\* local name is bound to is overwritten.
Rebind_inplace(st, res) ==
    IF res.raised THEN PState(st.heap, st.data, res)
    ELSE PState([st.heap EXCEPT ![st.data] = res.value], st.data, Ok(None))

\* `data = <expr over data>`: the result is a new object, and the local
\* name is rebound to it.
Rebind(st, res) ==
    IF res.raised THEN PState(st.heap, st.data, res)
    ELSE PState(Append(st.heap, res.value), Len(st.heap) + 1, Ok(None))

\* data = data.drop([five timestamp columns], axis=1)
DropTimestamps(st) ==
    IF st.out.raised THEN st
    ELSE Rebind(st, DataFrame_drop(st.heap[st.data], TimestampCols))

\* data[col].fillna(fill(data[col]), inplace=True): KeyError when col is
\* not a column, else the column of the frame `data` names is overwritten.
FillnaInplace(st, col, value) ==
    LET f == st.heap[st.data]
    IN  IF st.out.raised THEN st
        ELSE IF col \notin f.cols
        THEN PState(st.heap, st.data, Raise(Exc("KeyError", "DataFrame.__getitem__")))
        ELSE PState([st.heap EXCEPT ![st.data].data[col] =
                        Series_fillna(f.data[col], value)],
                    st.data, st.out)

FillnaMedian(st, col) ==
    FillnaInplace(st, col,
        IF st.out.raised \/ col \notin st.heap[st.data].cols THEN NaN
        ELSE Series_median(st.heap[st.data].data[col]))

FillnaNoReview(st) == FillnaInplace(st, TextCol, Str("No review"))

\* data = data.select_dtypes(include=[np.number])
SelectNumeric(st) ==
    IF st.out.raised THEN st
    ELSE Rebind(st, DataFrame_select_dtypes_number(st.heap[st.data]))

\* data = data.drop(cols_to_drop, axis=1)
DropIds(st) ==
    IF st.out.raised THEN st
    ELSE Rebind(st, DataFrame_drop(st.heap[st.data], IdCols))

\* (mutant) the except block wraps the error in a new one.
LogAndRaiseNew(component, out, log) ==
    [out |-> Raise(Exc("RuntimeError", component)),
     log |-> Append(log, [component |-> component, exc |-> out.exc])]

\* An except block: log the exception and `raise e`.
LogAndReraise(component, out, log) ==
    [out |-> out, log |-> Append(log, [component |-> component, exc |-> out.exc])]

\* DataPreprocessStrategy.handle_data(data), called on heap[ref]: the heap
\* after the call, the outcome (a reference to the returned frame) and the
\* log.
PreprocessHandleData(heap, ref) ==
    LET s0 == PState(heap, ref, Ok(None))
        s1 == DropTimestamps(s0)
        s2 == FillnaMedian(s1, "product_weight_g")
        s3 == FillnaMedian(s2, "product_length_cm")
        s4 == FillnaMedian(s3, "product_height_cm")
        s5 == FillnaMedian(s4, "product_width_cm")
        s6 == FillnaNoReview(s5)
        s7 == SelectNumeric(s6)
        s8 == DropIds(s7)
    IN  IF s8.out.raised
        THEN [heap |-> s8.heap]
                @@ LogAndReraise("DataPreprocessStrategy", s8.out, <<>>)
        ELSE [heap |-> s8.heap, out |-> Ok(s8.data), log |-> <<>>]

(* ------------------------ DataDivideStrategy --------------------------- *)
\* test_size=0.2, as the fraction TestSizeNum / TestSizeDen
TestSizeNum == 1
TestSizeDen == 5

\* A Series: the row index labels and the cells.
Series(index, values) == [index |-> index, values |-> values]

\* The tables handed directly to Divide: numeric columns only, with or
\* without the target column.
MkNumericTable(n, hasTarget) ==
    LET cols == DimCols \cup OtherCols
                    \cup (IF hasTarget THEN {TargetCol} ELSE {})
    IN  Frame(cols, [c \in cols |-> RawDtype(c)], [i \in 1..n |-> i],
              [c \in cols |-> [i \in 1..n |-> RawCell(c, i)]])

\* The orders in which a shuffle may put n rows. The order the seed 42
\* yields is one of them; which one is the generator's business.
Perms(n) ==
    { p \in [1..n -> 1..n] : \A i, j \in 1..n : i # j => p[i] # p[j] }

\* The rows of a frame (of a series) at the given positions, in that order.
TakeFrame(f, pos) ==
    Frame(f.cols, f.dtype, [k \in 1..Len(pos) |-> f.index[pos[k]]],
          [c \in f.cols |-> [k \in 1..Len(pos) |-> f.data[c][pos[k]]]])

TakeSeries(s, pos) ==
    Series([k \in 1..Len(pos) |-> s.index[pos[k]]],
           [k \in 1..Len(pos) |-> s.values[pos[k]]])

\* n_test = ceil(test_size * n_samples)
NTest(n) == (n * TestSizeNum + TestSizeDen - 1) \div TestSizeDen

\* The positions of the test rows and of the train rows: the first n_test
\* of the permutation, and the rest.
TestPositions(n, perm) == [k \in 1..NTest(n) |-> perm[k]]

\* (mutant) the train rows start one place early, on the last test row.
TrainPositions_overlap(n, perm) ==
    [k \in 1..(n - NTest(n)) |-> perm[NTest(n) + k - 1]]

TrainPositions(n, perm) == [k \in 1..(n - NTest(n)) |-> perm[NTest(n) + k]]

\* train_test_split(X, y, test_size=0.2, random_state=42), the shuffle
\* putting the rows in the order perm: ValueError when the train set would
\* be empty.
train_test_split(X, y, perm) ==
    LET n == NRows(X)
    IN  IF n - NTest(n) = 0
        THEN Raise(Exc("ValueError", "train_test_split"))
        ELSE Ok([X_train |-> TakeFrame(X, TrainPositions(n, perm)),
                 X_test  |-> TakeFrame(X, TestPositions(n, perm)),
                 y_train |-> TakeSeries(y, TrainPositions(n, perm)),
                 y_test  |-> TakeSeries(y, TestPositions(n, perm))])

\* DataDivideStrategy.handle_data(data)
DivideHandleData(f, perm) ==
    LET X == DataFrame_drop(f, {TargetCol})
        r == IF X.raised THEN X
             ELSE train_test_split(X.value,
                                   Series(f.index, f.data[TargetCol]), perm)
    IN  IF r.raised THEN LogAndReraise("DataDivideStrategy", r, <<>>)
        ELSE [out |-> r, log |-> <<>>]

(* --------------------------- score evaluators -------------------------- *)
\* A metric value: the fraction num/den, its square root, or nan.
Float(num, den) == [kind |-> "float", num |-> num, den |-> den]
Sqrt(x) == [kind |-> "sqrt", num |-> x.num, den |-> x.den]
FloatNaN == [kind |-> "nan", num |-> 0, den |-> 1]

RECURSIVE Sum(_)
Sum(xs) == IF xs = <<>> THEN 0 ELSE Head(xs) + Sum(Tail(xs))

\* (mutant) the lengths are not compared and an empty input is let through.
check_reg_targets_unchecked(y_true, y_pred) == Ok(None)

\* The checks every regression metric makes of its arguments
\* (check_consistent_length, then check_array): ValueError on different
\* lengths and on no sample at all.
check_reg_targets(y_true, y_pred) ==
    IF Len(y_true) # Len(y_pred)
    THEN Raise(Exc("ValueError", "check_consistent_length"))
    ELSE IF Len(y_true) = 0
    THEN Raise(Exc("ValueError", "check_array"))
    ELSE Ok(None)

\* The sum of the squared residuals.
ResidualSS(y_true, y_pred) ==
    Sum([i \in 1..Len(y_true) |-> (y_true[i] - y_pred[i]) * (y_true[i] - y_pred[i])])

\* n times the total sum of squares about the mean: n * sum(y^2) - sum(y)^2.
TotalSSTimesN(y_true) ==
    Len(y_true) * Sum([i \in 1..Len(y_true) |-> y_true[i] * y_true[i]])
        - Sum(y_true) * Sum(y_true)

\* sklearn.metrics.mean_squared_error(y_true, y_pred)
mean_squared_error(y_true, y_pred) ==
    LET c == check_reg_targets(y_true, y_pred)
    IN  IF c.raised THEN c
        ELSE Ok(Float(ResidualSS(y_true, y_pred), Len(y_true)))

\* sklearn.metrics.r2_score(y_true, y_pred): nan (with a warning) for
\* fewer than two samples; with a constant y_true, 1.0 for a perfect
\* prediction and 0.0 otherwise; else 1 - RSS/TSS.
r2_score(y_true, y_pred) ==
    LET c   == check_reg_targets(y_true, y_pred)
        n   == Len(y_true)
        rss == ResidualSS(y_true, y_pred)
        tss == TotalSSTimesN(y_true)
    IN  IF c.raised THEN c
        ELSE IF n < 2 THEN Ok(FloatNaN)
        ELSE IF tss = 0 THEN Ok(IF rss = 0 THEN Float(1, 1) ELSE Float(0, 1))
        ELSE Ok(Float(tss - n * rss, tss))

\* np.sqrt(mean_squared_error(y_true, y_pred))
root_mean_squared_error(y_true, y_pred) ==
    LET m == mean_squared_error(y_true, y_pred)
    IN  IF m.raised THEN m ELSE Ok(Sqrt(m.value))

\* MSE.calculate_score / R2Score.calculate_score / RMSE.calculate_score
MSE_calculate_score(y_true, y_pred) ==
    LET r == mean_squared_error(y_true, y_pred)
    IN  IF r.raised THEN LogAndReraise("MSE", r, <<>>)
        ELSE [out |-> r, log |-> <<>>]

R2Score_calculate_score(y_true, y_pred) ==
    LET r == r2_score(y_true, y_pred)
    IN  IF r.raised THEN LogAndReraise("R2Score", r, <<>>)
        ELSE [out |-> r, log |-> <<>>]

RMSE_calculate_score(y_true, y_pred) ==
    LET r == root_mean_squared_error(y_true, y_pred)
    IN  IF r.raised THEN LogAndReraise("RMSE", r, <<>>)
        ELSE [out |-> r, log |-> <<>>]

\* The sequences handed directly to an evaluator.
RECURSIVE SeqsUpTo(_)
SeqsUpTo(l) ==
    IF l = 0 THEN {<<>>}
    ELSE SeqsUpTo(l - 1) \cup [1..l -> 1..MaxVal]

(* ----------------------------- model trainer --------------------------- *)
FrameHasNa(f) == \E c \in f.cols : \E i \in 1..NRows(f) : IsNa(f.data[c][i])
SeriesHasNa(s) == \E i \in 1..Len(s.values) : IsNa(s.values[i])

\* LinearRegression(**kwargs).fit(X, y): ValueError when the input holds a
\* NaN or no row, else the fitted estimator.
LinearRegression_fit(X, y) ==
    IF FrameHasNa(X) \/ SeriesHasNa(y) \/ NRows(X) = 0
    THEN Raise(Exc("ValueError", "LinearRegression.fit"))
    ELSE Ok([kind |-> "LinearRegression", features |-> X.cols])

\* LinearRegressionModel.train(X_train, y_train)
LinearRegressionModel_train(X, y) ==
    LET r == LinearRegression_fit(X, y)
    IN  IF r.raised THEN LogAndReraise("LinearRegressionModel", r, <<>>)
        ELSE [out |-> r, log |-> <<>>]

\* The values ModelNameConfig().model_name may hold.
ModelNames == {"LinearRegression", "RandomForestRegressor"}

\* (mutant) the configured name is ignored and a linear regression is
\* trained whatever it says.
train_model_any_name(model_name, X_train, y_train) ==
    LET t == LinearRegressionModel_train(X_train, y_train)
    IN  IF t.out.raised THEN LogAndReraise("train_model", t.out, t.log)
        ELSE t

\* The train_model step under the configured model name.
train_model(model_name, X_train, y_train) ==
    IF model_name = "LinearRegression"
    THEN LET t == LinearRegressionModel_train(X_train, y_train)
         IN  IF t.out.raised THEN LogAndReraise("train_model", t.out, t.log)
             ELSE t
    ELSE LogAndReraise("train_model",
                       Raise(Exc("ValueError", "train_model")), <<>>)

(* --------------------------- evaluate_model ---------------------------- *)
\* model.predict(x_test): ValueError when x_test holds a NaN, else one
\* prediction per row. The fitted coefficients are not computed here: the
\* predictions are the argument pred.
model_predict(model, x_test, pred) ==
    IF FrameHasNa(x_test)
    THEN Raise(Exc("ValueError", "LinearRegression.predict"))
    ELSE Ok(pred)

MetricNames == <<"mse", "r2_score", "rmse">>

\* mlflow.log_metric(name, value), the k-th emission of the step: the
\* tracker may refuse it (failAt = k), and then raises MlflowException.
log_metric(tracker, name, value, k, failAt) ==
    IF failAt = k
    THEN [tracker |-> tracker, out |-> Raise(Exc("MlflowException", "mlflow.log_metric"))]
    ELSE [tracker |-> Append(tracker, [name |-> name, value |-> value]),
          out |-> Ok(None)]

\* One `x = X().calculate_score(y_test, prediction); mlflow.log_metric(name, x)`
\* pair of the step: es is the step's state so far.
ScoreAndLog(es, score, name, k, failAt) ==
    IF es.out.raised THEN es
    ELSE IF score.out.raised
    THEN [es EXCEPT !.out = score.out, !.log = es.log \o score.log]
    ELSE LET l == log_metric(es.tracker, name, score.out.value, k, failAt)
         IN  [es EXCEPT !.tracker = l.tracker,
                        !.out = l.out,
                        !.values = Append(es.values, score.out.value)]

\* The evaluate_model step: the outcome (the three metrics), the log and
\* what the tracker received.
evaluate_model(model, x_test, y_test, pred, failAt) ==
    LET y  == [i \in 1..Len(y_test.values) |-> y_test.values[i].n]
        p  == model_predict(model, x_test, pred)
        e0 == [tracker |-> <<>>, out |-> p, log |-> <<>>, values |-> <<>>]
        e1 == ScoreAndLog(e0, MSE_calculate_score(y, pred), "mse", 1, failAt)
        e2 == ScoreAndLog(e1, R2Score_calculate_score(y, pred), "r2_score", 2, failAt)
        e3 == ScoreAndLog(e2, RMSE_calculate_score(y, pred), "rmse", 3, failAt)
    IN  IF e3.out.raised
        THEN [tracker |-> e3.tracker]
                @@ LogAndReraise("evaluate_model", e3.out, e3.log)
        ELSE [tracker |-> e3.tracker, out |-> Ok(e3.values), log |-> e3.log]

(* ------------------------- ingestion and cleaning ---------------------- *)
\* The tables the file at data_path may hold: the columns it lacks and the
\* columns with empty cells.
FileMissingCols == { {}, {"order_approved_at"}, {TargetCol} }
FileNaCols == { "price", "product_weight_g" }

\* IngestData(data_path).get_data(): pd.read_csv of the file, which may
\* not exist.
IngestData_get_data(exists, table) ==
    IF ~exists THEN Raise(Exc("FileNotFoundError", "pd.read_csv"))
    ELSE Ok(table)

\* The ingestion step.
ingest_data(exists, table) ==
    LET r == IngestData_get_data(exists, table)
    IN  IF r.raised THEN LogAndReraise("ingest_data", r, <<>>)
        ELSE [out |-> r, log |-> <<>>]

\* The clean_data step: Preprocess, then Divide, each through a
\* DataCleaning dispatcher.
clean_data(df, perm) ==
    LET p == PreprocessHandleData(<<df>>, 1)
        d == DivideHandleData(p.heap[p.out.value], perm)
    IN  IF p.out.raised THEN LogAndReraise("clean_data", p.out, p.log)
        ELSE IF d.out.raised THEN LogAndReraise("clean_data", d.out, d.log)
        ELSE d

(* ------------------------------ pipeline ------------------------------- *)
\* train_pipeline: the steps in the order their data dependencies give.
\* (enable_cache=True lets the orchestrator reuse a step's stored output for
\* the same inputs in place of running it; the outputs and their order are
\* those of a run, which is what is modelled. ingest_df is modelled by the
\* ingestion step of src/steps/ingest_data.py.)
StepOrder == <<"ingest_df", "clean_data", "train_model", "evaluate_model">>

\* Where the run stands once step number k has returned.
PcAfter == <<"ingested", "cleaned", "trained", "evaluated">>

(* ------------------------------ state ---------------------------------- *)
VARIABLES
    pc,        \* "idle", "called" (a direct call was made), or the
               \* pipeline's position: "ingested", "cleaned", "trained",
               \* "evaluated", "aborted"
    op,        \* the operation last called and its arguments
    ret,       \* its outcome
    log,       \* what it logged with logging.error, in order
    heap,      \* the frames alive after a dispatcher call, by reference
    self_df,   \* DataCleaning.df: the reference the dispatcher holds
    tracker,   \* the metrics the experiment tracker has received
    started,   \* the pipeline steps started so far, in order
    completed, \* the pipeline steps that have returned
    df,        \* the pipeline's artifacts: the ingested table,
    split,     \* the four partitions,
    model      \* the trained model

vars == <<pc, op, ret, log, heap, self_df, tracker, started, completed,
          df, split, model>>

EmptyFrame == Frame({}, <<>>, <<>>, <<>>)
NoSplit ==
    [X_train |-> EmptyFrame, X_test |-> EmptyFrame,
     y_train |-> Series(<<>>, <<>>), y_test |-> Series(<<>>, <<>>)]
NoModel == [kind |-> "None", features |-> {}]

Init ==
    /\ pc = "idle"
    /\ op = [name |-> "none"]
    /\ ret = Ok(None)
    /\ log = <<>>
    /\ heap = <<>>
    /\ self_df = 0
    /\ tracker = <<>>
    /\ started = <<>>
    /\ completed = {}
    /\ df = EmptyFrame
    /\ split = NoSplit
    /\ model = NoModel

pipelineVars == <<started, completed, df, split, model>>

(* ---------------------------- direct calls ----------------------------- *)
\* DataCleaning(data, DataPreprocessStrategy()).handle_data()
CallCleanPreprocess ==
    /\ pc = "idle"
    /\ \E n \in 0..MaxRows, m \in MissingColSets :
        \E na \in NaChoices(NaCols, n) :
        LET t == MkTable(n, m, na[1], na[2])
            r == PreprocessHandleData(<<t>>, 1)
        IN  /\ op' = [name |-> "DataCleaning/Preprocess", data |-> t]
            /\ self_df' = 1
            /\ heap' = r.heap
            /\ ret' = r.out
            /\ log' = r.log
    /\ pc' = "called"
    /\ UNCHANGED <<tracker, pipelineVars>>

\* DataCleaning(data, DataDivideStrategy()).handle_data()
CallCleanDivide ==
    /\ pc = "idle"
    /\ \E n \in 0..MaxDivideRows, hasTarget \in BOOLEAN :
        \E perm \in Perms(n) :
            LET t == MkNumericTable(n, hasTarget)
                r == DivideHandleData(t, perm)
            IN  /\ op' = [name |-> "DataCleaning/Divide", data |-> t, perm |-> perm]
                /\ self_df' = 1
                /\ heap' = <<t>>
                /\ ret' = r.out
                /\ log' = r.log
    /\ pc' = "called"
    /\ UNCHANGED <<tracker, pipelineVars>>

\* MSE().calculate_score(y_true, y_pred), and likewise R2Score and RMSE
CallEvaluator(name, r, y_true, y_pred) ==
    /\ op' = [name |-> name, y_true |-> y_true, y_pred |-> y_pred]
    /\ ret' = r.out
    /\ log' = r.log
    /\ pc' = "called"
    /\ UNCHANGED <<heap, self_df, tracker, pipelineVars>>

CallMSE ==
    /\ pc = "idle"
    /\ \E y_true, y_pred \in SeqsUpTo(MaxLen) :
        CallEvaluator("MSE", MSE_calculate_score(y_true, y_pred), y_true, y_pred)

CallR2Score ==
    /\ pc = "idle"
    /\ \E y_true, y_pred \in SeqsUpTo(MaxLen) :
        CallEvaluator("R2Score", R2Score_calculate_score(y_true, y_pred), y_true, y_pred)

CallRMSE ==
    /\ pc = "idle"
    /\ \E y_true, y_pred \in SeqsUpTo(MaxLen) :
        CallEvaluator("RMSE", RMSE_calculate_score(y_true, y_pred), y_true, y_pred)

(* --------------------------- pipeline steps ---------------------------- *)
\* (mutant) a step may start once any earlier step has returned.
CanStart_skipping(k) ==
    IF k = 1 THEN pc = "idle" ELSE pc \in { PcAfter[j] : j \in 1..(k - 1) }

\* A step may start once the step before it has returned its output.
CanStart(k) ==
    IF k = 1 THEN pc = "idle" ELSE pc = PcAfter[k - 1]

\* Step number k ran with outcome r: the run moves on, or aborts.
StepDone(k, args, r) ==
    /\ op' = [name |-> StepOrder[k], args |-> args]
    /\ started' = Append(started, StepOrder[k])
    /\ completed' = IF r.out.raised THEN completed
                    ELSE completed \cup {StepOrder[k]}
    /\ pc' = IF r.out.raised THEN "aborted" ELSE PcAfter[k]
    /\ ret' = r.out
    /\ log' = r.log
    /\ UNCHANGED <<heap, self_df>>

\* df = ingest_df(data_path)
IngestStep ==
    /\ CanStart(1)
    /\ \E exists \in BOOLEAN, n \in 0..MaxRows, m \in FileMissingCols :
        \E na \in NaChoices(FileNaCols, n) :
        LET r == ingest_data(exists, MkTable(n, m, na[1], na[2]))
        IN  /\ StepDone(1, [exists |-> exists], r)
            /\ df' = IF r.out.raised THEN df ELSE r.out.value
    /\ UNCHANGED <<tracker, split, model>>

\* X_train, X_test, y_train, y_test = clean_data(df)
CleanStep ==
    /\ CanStart(2)
    /\ \E perm \in Perms(NRows(df)) :
        LET r == clean_data(df, perm)
        IN  /\ StepDone(2, [perm |-> perm], r)
            /\ split' = IF r.out.raised THEN split ELSE r.out.value
    /\ UNCHANGED <<tracker, df, model>>

\* model = train_model(X_train, y_train)
TrainStep ==
    /\ CanStart(3)
    /\ \E model_name \in ModelNames :
        LET r == train_model(model_name, split.X_train, split.y_train)
        IN  /\ StepDone(3, [model_name |-> model_name], r)
            /\ model' = IF r.out.raised THEN model ELSE r.out.value
    /\ UNCHANGED <<tracker, df, split>>

\* evaluate_model(model, X_test, y_test)
EvalStep ==
    /\ CanStart(4)
    /\ \E pred \in [1..NRows(split.X_test) -> 1..MaxVal], failAt \in 0..3 :
        LET r == evaluate_model(model, split.X_test, split.y_test, pred, failAt)
        IN  /\ StepDone(4, [pred |-> pred, failAt |-> failAt], r)
            /\ tracker' = r.tracker
    /\ UNCHANGED <<df, split, model>>

Next ==
    \/ CallCleanPreprocess
    \/ CallCleanDivide
    \/ CallMSE
    \/ CallR2Score
    \/ CallRMSE
    \/ IngestStep
    \/ CleanStep
    \/ TrainStep
    \/ EvalStep

Spec == Init /\ [][Next]_vars

(* ------------------------------ claims --------------------------------- *)
\* The error kinds of the design, as the exceptions the code raises for
\* them: a missing column is pandas' KeyError, a bad argument of a metric,
\* a split or a model name is a ValueError.
DataFormatErrors ==
    { Exc("KeyError", "DataFrame.drop"), Exc("KeyError", "DataFrame.__getitem__") }
ShapeMismatchErrors ==
    { Exc("ValueError", "check_consistent_length"), Exc("ValueError", "check_array") }
UnsupportedModelErrors == { Exc("ValueError", "train_model") }

IsPreprocessCall == pc = "called" /\ op.name = "DataCleaning/Preprocess"
IsDivideCall == pc = "called" /\ op.name = "DataCleaning/Divide"
IsEvaluatorCall == pc = "called" /\ op.name \in {"MSE", "R2Score", "RMSE"}
StepRan(name) == pc # "called" /\ op.name = name

ToSet(xs) == { xs[i] : i \in 1..Len(xs) }

\* C1: the steps of a run start in the order ingestion, cleaning, training,
\* evaluation, each only after the one before it has returned its output:
\* a table before cleaning, the partitions before training, a model before
\* evaluation.
C1_FixedStepOrder ==
    /\ \E k \in 0..Len(StepOrder) : started = SubSeq(StepOrder, 1, k)
    /\ \A i \in 1..(Len(started) - 1) : started[i] \in completed
    /\ "clean_data" \in ToSet(started) => df.cols # {}
    /\ "train_model" \in ToSet(started) =>
            /\ NRows(split.X_train) >= 1
            /\ split.X_train.index = split.y_train.index
    /\ "evaluate_model" \in ToSet(started) => model.kind = "LinearRegression"

C1_Witness ==
    /\ pc = "evaluated"
    /\ started = StepOrder
    /\ completed = ToSet(StepOrder)

\* C2: after evaluate_model, the metrics it has produced (returned, or
\* received by the tracker as mse, r2_score, rmse) are none or all three,
\* and none is returned when the step fails.
C2_NoPartialMetricSet ==
    StepRan("evaluate_model") =>
        LET emitted == { tracker[i].name : i \in 1..Len(tracker) }
        IN  /\ emitted \in { {}, ToSet(MetricNames) }
            /\ IF ret.raised THEN ret.value = None ELSE Len(ret.value) = 3

\* C3: Preprocess on a table lacking any of the five timestamp columns
\* fails with the missing-column error and returns no table.
C3_MissingTimestampFails ==
    (IsPreprocessCall /\ ~(TimestampCols \subseteq op.data.cols)) =>
        /\ ret.raised
        /\ ret.exc \in DataFormatErrors
        /\ ret.value = None

C3_Witness ==
    /\ IsPreprocessCall
    /\ "order_purchase_timestamp" \notin op.data.cols
    /\ NRows(op.data) >= 1
    /\ ret.raised

\* Column c of the output of an accepted Preprocess call holds no missing
\* value, and every value present in the input is unchanged at its row.
ImputedAndPreserved(c) ==
    LET in  == op.data.data[c]
        out == heap[ret.value].data[c]
    IN  /\ Len(out) = Len(in)
        /\ \A i \in 1..Len(in) :
              /\ ~IsNa(out[i])
              /\ ~IsNa(in[i]) => out[i] = in[i]

HasMissing(col) == \E i \in 1..Len(col) : IsNa(col[i])
HasPresent(col) == \E i \in 1..Len(col) : ~IsNa(col[i])

\* C4 (as claimed): every numeric column of an accepted table that holds
\* missing values and is in the output is imputed, its other values kept.
C4_EveryNumericColumnImputed ==
    (IsPreprocessCall /\ ~ret.raised) =>
        \A c \in heap[ret.value].cols :
            (IsNumericDtype(op.data.dtype[c]) /\ HasMissing(op.data.data[c]))
                => ImputedAndPreserved(c)

\* C4 (amended): each of the four physical-dimension columns that holds
\* at least one value is imputed, its other values kept; every other
\* column of the output, and a dimension column with no value at all, is
\* as it was in the input, missing values included.
C4_DimensionColumnsImputed ==
    (IsPreprocessCall /\ ~ret.raised) =>
        \A c \in heap[ret.value].cols :
            IF c \in DimCols /\ HasPresent(op.data.data[c])
            THEN ImputedAndPreserved(c)
            ELSE heap[ret.value].data[c] = op.data.data[c]

C4_Witness ==
    /\ IsPreprocessCall
    /\ ~ret.raised
    /\ \E c \in DimCols :
          /\ HasMissing(op.data.data[c])
          /\ HasPresent(op.data.data[c])
          /\ c \in heap[ret.value].cols

\* C5: whenever Divide returns a split of T, train and test together have
\* as many rows as T, share no row, and between them hold exactly the rows
\* of T; X and y of each side carry the same row labels in the same order
\* and the cells T has in those rows; and the test side holds the 0.2
\* fraction of the rows, rounded up to a whole row.
C5_SplitPartitionsRows ==
    (IsDivideCall /\ ~ret.raised) =>
        LET T     == op.data
            sp    == ret.value
            train == ToSet(sp.X_train.index)
            test  == ToSet(sp.X_test.index)
            RowsOf(part, ys) ==
                \A k \in 1..NRows(part) :
                    /\ \A c \in part.cols :
                          part.data[c][k] = T.data[c][part.index[k]]
                    /\ ys.values[k] = T.data[TargetCol][part.index[k]]
        IN  /\ NRows(sp.X_train) + NRows(sp.X_test) = NRows(T)
            /\ Cardinality(train) = NRows(sp.X_train)
            /\ Cardinality(test) = NRows(sp.X_test)
            /\ train \cap test = {}
            /\ train \cup test = ToSet(T.index)
            /\ sp.y_train.index = sp.X_train.index
            /\ sp.y_test.index = sp.X_test.index
            /\ sp.X_train.cols = T.cols \ {TargetCol}
            /\ sp.X_test.cols = T.cols \ {TargetCol}
            /\ RowsOf(sp.X_train, sp.y_train)
            /\ RowsOf(sp.X_test, sp.y_test)
            /\ 5 * NRows(sp.X_test) >= NRows(T)
            /\ 5 * (NRows(sp.X_test) - 1) < NRows(T)

C5_Witness ==
    /\ IsDivideCall
    /\ ~ret.raised
    /\ NRows(op.data) >= 5
    /\ NRows(ret.value.X_test) >= 1
    /\ NRows(ret.value.X_train) >= 4

\* C6: under a model name other than "LinearRegression" the train_model
\* step fails with the unsupported-model error, which it logs; no model is
\* trained and none is handed on.
C6_UnsupportedModelFails ==
    (StepRan("train_model") /\ op.args.model_name # "LinearRegression") =>
        /\ ret.raised
        /\ ret.exc \in UnsupportedModelErrors
        /\ ret.value = None
        /\ log = <<[component |-> "train_model", exc |-> ret.exc]>>
        /\ model = NoModel
        /\ "train_model" \notin completed
        /\ pc = "aborted"

C6_Witness ==
    /\ StepRan("train_model")
    /\ op.args.model_name = "RandomForestRegressor"
    /\ ret.raised
    /\ ~FrameHasNa(split.X_train)

\* C7: R2Score.calculate_score fails, returning no value, on equal-length
\* sequences whose true values are all equal.
C7_R2FailsOnZeroVariance ==
    ( /\ pc = "called"
      /\ op.name = "R2Score"
      /\ Len(op.y_true) = Len(op.y_pred)
      /\ Len(op.y_true) >= 1
      /\ \A i \in 1..Len(op.y_true) : op.y_true[i] = op.y_true[1] )
        => ret.raised

\* C8: each of the three evaluators fails with the shape error, returning
\* no value, when the two sequences differ in length or are empty.
C8_ShapeMismatchFails ==
    ( /\ IsEvaluatorCall
      /\ (Len(op.y_true) # Len(op.y_pred) \/ Len(op.y_true) = 0) )
        => /\ ret.raised
           /\ ret.exc \in ShapeMismatchErrors
           /\ ret.value = None

C8_Witness ==
    /\ IsEvaluatorCall
    /\ op.name = "R2Score"
    /\ Len(op.y_true) = 3
    /\ Len(op.y_pred) = 2
    /\ ret.raised

\* The failure the libraries called by the last operation detect on its
\* arguments, with the components it passes through on its way to the
\* caller, innermost first (no failure: an outcome that is not raised).
MissingColumnError(cols) ==
    IF ~(TimestampCols \subseteq cols) THEN Raise(Exc("KeyError", "DataFrame.drop"))
    ELSE IF ~(DimCols \cup {TextCol} \subseteq cols)
    THEN Raise(Exc("KeyError", "DataFrame.__getitem__"))
    ELSE IF ~(IdCols \subseteq cols) THEN Raise(Exc("KeyError", "DataFrame.drop"))
    ELSE Ok(None)

SplitError(cols, n) ==
    IF TargetCol \notin cols THEN Raise(Exc("KeyError", "DataFrame.drop"))
    ELSE IF n < 2 THEN Raise(Exc("ValueError", "train_test_split"))
    ELSE Ok(None)

Detected ==
    CASE op.name = "DataCleaning/Preprocess" ->
            [err |-> MissingColumnError(op.data.cols),
             path |-> <<"DataPreprocessStrategy">>]
      [] op.name = "DataCleaning/Divide" ->
            [err |-> SplitError(op.data.cols, NRows(op.data)),
             path |-> <<"DataDivideStrategy">>]
      [] op.name \in {"MSE", "R2Score", "RMSE"} ->
            [err |-> check_reg_targets(op.y_true, op.y_pred),
             path |-> <<op.name>>]
      [] op.name = "ingest_df" ->
            [err |-> IF op.args.exists THEN Ok(None)
                     ELSE Raise(Exc("FileNotFoundError", "pd.read_csv")),
             path |-> <<"ingest_data">>]
      [] op.name = "clean_data" ->
            IF MissingColumnError(df.cols).raised
            THEN [err |-> MissingColumnError(df.cols),
                  path |-> <<"DataPreprocessStrategy", "clean_data">>]
            ELSE [err |-> SplitError(df.cols, NRows(df)),
                  path |-> <<"DataDivideStrategy", "clean_data">>]
      [] op.name = "train_model" ->
            IF op.args.model_name # "LinearRegression"
            THEN [err |-> Raise(Exc("ValueError", "train_model")),
                  path |-> <<"train_model">>]
            ELSE [err |-> IF FrameHasNa(split.X_train)
                          THEN Raise(Exc("ValueError", "LinearRegression.fit"))
                          ELSE Ok(None),
                  path |-> <<"LinearRegressionModel", "train_model">>]
      [] op.name = "evaluate_model" ->
            [err |-> IF FrameHasNa(split.X_test)
                     THEN Raise(Exc("ValueError", "LinearRegression.predict"))
                     ELSE IF op.args.failAt # 0
                     THEN Raise(Exc("MlflowException", "mlflow.log_metric"))
                     ELSE Ok(None),
             path |-> <<"evaluate_model">>]
      [] OTHER -> [err |-> Ok(None), path |-> <<>>]

\* C9: when a failure is detected, every component it passes through logs
\* it and hands the very same error on, so that the caller gets that error
\* and no value; when none is detected, nothing is logged and a value is
\* returned.
C9_LogAndReraiseUnchanged ==
    LET d == Detected
    IN  IF d.err.raised
        THEN /\ ret.raised
             /\ ret.exc = d.err.exc
             /\ ret.value = None
             /\ log = [i \in 1..Len(d.path) |->
                          [component |-> d.path[i], exc |-> d.err.exc]]
        ELSE /\ ~ret.raised
             /\ log = <<>>

C9_Witness ==
    /\ StepRan("train_model")
    /\ op.args.model_name = "LinearRegression"
    /\ ret.raised
    /\ Len(log) = 2
    /\ log[1].component = "LinearRegressionModel"
    /\ log[2].component = "train_model"
    /\ pc = "aborted"

\* C10 (as claimed): after a successful Preprocess call through the
\* dispatcher, the table the dispatcher holds has itself lost the five
\* timestamp columns and has no missing dimension value left.
C10_InputMutatedInPlace ==
    (IsPreprocessCall /\ ~ret.raised) =>
        /\ heap[self_df].cols \cap TimestampCols = {}
        /\ \A c \in DimCols \cap heap[self_df].cols :
              HasPresent(op.data.data[c]) => ~HasMissing(heap[self_df].data[c])

\* C10 (amended): the table the dispatcher holds is left exactly as it was
\* passed in, timestamp columns and missing values included; the cleaned
\* table is another object, without the timestamp columns.
C10_InputLeftUnchanged ==
    IsPreprocessCall =>
        /\ heap[self_df] = op.data
        /\ ~ret.raised =>
              /\ ret.value # self_df
              /\ heap[ret.value].cols \cap TimestampCols = {}
              /\ TimestampCols \subseteq heap[self_df].cols

C10_Witness ==
    /\ IsPreprocessCall
    /\ ~ret.raised
    /\ HasMissing(heap[self_df].data["product_weight_g"])
    /\ HasPresent(heap[self_df].data["product_weight_g"])
    /\ ~HasMissing(heap[ret.value].data["product_weight_g"])
====
